---- MODULE Spec2Model ----
(***************************************************************************)
(* Weekly cargo-aircraft scheduling: the integer program assembled in      *)
(* solver.py (variables, objective, three constraint families) and the     *)
(* scenario harness of experiments.py that evaluates it for several fleet  *)
(* sizes and perturbed demand tables.                                      *)
(***************************************************************************)
EXTENDS Integers, Sequences, FiniteSets, TLC

(***************************************************************************)
(* Data (solver.py, "# --- Data ---").  The network, the unit costs and    *)
(* the demand table are the ones of the source.  Four quantities are       *)
(* scaled so that the integer program can be solved by enumeration: the    *)
(* week is cut to its first NumDays days (5 in the source), cargo is       *)
(* counted in lots of DemandUnit loads, rounded up (1 in the source), and  *)
(* the fleet sizes of the sweep are FirstFleet, FirstFleet + FleetStep,    *)
(* ... up to MaxFleet (1150, 1200, ... 1450 in the source).  With the      *)
(* values of the source every definition below is the datum of the source. *)
(* As in the source, the scaled demand has a solution at every fleet size  *)
(* of the sweep, and the second size of the sweep is FLEET_SIZE.           *)
(***************************************************************************)
NumDays == 4

FirstFleet == 7

FleetStep == 1

MaxFleet == 8

DemandUnit == 300

AIRPORTS == {"A", "B", "C"}

DAYS == SubSeq(<<"Mon", "Tue", "Wed", "Thu", "Fri">>, 1, NumDays)

T == Len(DAYS)

Days == 0 .. (T - 1)

ROUTES == {r \in AIRPORTS \X AIRPORTS : r[1] # r[2]}

COST_REPO ==
  [r \in ROUTES |->
     IF r \in {<<"A", "B">>, <<"B", "A">>} THEN 7
     ELSE IF r \in {<<"A", "C">>, <<"C", "A">>} THEN 3
     ELSE 6]

COST_HOLD == 10

\* FLEET_SIZE = 1200: the second size of range(1150, 1451, 50).
FLEET_SIZE == FirstFleet + FleetStep

\* A number of loads, in lots of DemandUnit loads.
scale(v) == (v + DemandUnit - 1) \div DemandUnit

\* One row of DEMAND: the cells of the days of the week.
Cells(row) == [t \in Days |-> scale(row[t + 1])]

Table(ab, ac, ba, bc, ca, cb) ==
  [r \in ROUTES |->
     IF r = <<"A", "B">> THEN ab
     ELSE IF r = <<"A", "C">> THEN ac
     ELSE IF r = <<"B", "A">> THEN ba
     ELSE IF r = <<"B", "C">> THEN bc
     ELSE IF r = <<"C", "A">> THEN ca
     ELSE cb]

DEMAND ==
  Table(Cells(<<100, 200, 100, 400, 300>>),
        Cells(<<50, 50, 50, 50, 50>>),
        Cells(<<25, 25, 25, 25, 25>>),
        Cells(<<25, 25, 25, 25, 25>>),
        Cells(<<40, 40, 40, 40, 40>>),
        Cells(<<400, 200, 300, 200, 400>>))

(***************************************************************************)
(* gp.quicksum over a generator: the sum of the values of a function.      *)
(***************************************************************************)
quicksum(f) ==
  LET RECURSIVE sum(_)
      sum(D) == IF D = {} THEN 0
                ELSE LET k == CHOOSE k0 \in D : TRUE
                     IN f[k] + sum(D \ {k})
  IN sum(DOMAIN f)

Min(a, b) == IF a <= b THEN a ELSE b

(***************************************************************************)
(* Variables of the program (model.addVars): index sets of x, y, I and H.  *)
(* Every variable is a gurobi INTEGER variable with the default bounds     *)
(* [0, +infinity).                                                         *)
(***************************************************************************)
XKeys == {<<r[1], r[2], t>> : r \in ROUTES, t \in Days}

IKeys == AIRPORTS \X Days

HKeys(demand) == {<<r[1], r[2], t>> : r \in DOMAIN demand, t \in Days}

(***************************************************************************)
(* Objective.  A linear expression is kept as its coefficients, one per    *)
(* variable it may mention.                                                *)
(***************************************************************************)
\* obj_repo with a cost of 1 on every grounded aircraft as well
obj_repo_grounded_cost(demand) ==
  [x |-> [k \in XKeys |-> 0],
   y |-> [k \in XKeys |-> COST_REPO[<<k[1], k[2]>>]],
   I |-> [k \in IKeys |-> 1],
   H |-> [k \in HKeys(demand) |-> 0]]

obj_repo(demand) ==
  [x |-> [k \in XKeys |-> 0],
   y |-> [k \in XKeys |-> COST_REPO[<<k[1], k[2]>>]],
   I |-> [k \in IKeys |-> 0],
   H |-> [k \in HKeys(demand) |-> 0]]

obj_hold(demand) ==
  [x |-> [k \in XKeys |-> 0],
   y |-> [k \in XKeys |-> 0],
   I |-> [k \in IKeys |-> 0],
   H |-> [k \in HKeys(demand) |-> COST_HOLD]]

LinAdd(e1, e2) ==
  [x |-> [k \in DOMAIN e1.x |-> e1.x[k] + e2.x[k]],
   y |-> [k \in DOMAIN e1.y |-> e1.y[k] + e2.y[k]],
   I |-> [k \in DOMAIN e1.I |-> e1.I[k] + e2.I[k]],
   H |-> [k \in DOMAIN e1.H |-> e1.H[k] + e2.H[k]]]

getValue(e, sol) ==
  quicksum([k \in DOMAIN e.x |-> e.x[k] * sol.x[k]])
  + quicksum([k \in DOMAIN e.y |-> e.y[k] * sol.y[k]])
  + quicksum([k \in DOMAIN e.I |-> e.I[k] * sol.I[k]])
  + quicksum([k \in DOMAIN e.H |-> e.H[k] * sol.H[k]])

(***************************************************************************)
(* Constraints.                                                            *)
(***************************************************************************)
\* prev without the wrap from day 0 to day T-1
prev_nowrap(t) == IF t = 0 THEN 0 ELSE t - 1

prev(t) == (t - 1) % T

inbound(sol, i, t) ==
  quicksum([j \in AIRPORTS \ {i} |-> sol.x[j, i, prev(t)] + sol.y[j, i, prev(t)]])

outbound(sol, i, t) ==
  quicksum([j \in AIRPORTS \ {i} |-> sol.x[i, j, t] + sol.y[i, j, t]])

FlowBal_Air(sol, i, t) ==
  inbound(sol, i, t) + sol.I[i, prev(t)] = outbound(sol, i, t) + sol.I[i, t]

\* new_demand read one day late
new_demand_prev_day(demand, r, t) == demand[r][(t - 1) % T]

new_demand(demand, r, t) == demand[r][t]

FlowBal_Cargo(sol, demand, r, t) ==
  sol.H[r[1], r[2], prev(t)] + new_demand(demand, r, t)
    = sol.x[r[1], r[2], t] + sol.H[r[1], r[2], t]

total_in_air(sol, t) ==
  quicksum([r \in ROUTES |-> sol.x[r[1], r[2], t] + sol.y[r[1], r[2], t]])

\* the fleet count without the grounded aircraft
total_on_ground_none(sol, t) == 0

total_on_ground(sol, t) == quicksum([i \in AIRPORTS |-> sol.I[i, t]])

\* the fleet size as an upper limit only
FleetSizeAtMost(total, fleet) == total <= fleet

FleetSizeRel(total, fleet) == total = fleet

FleetSize(sol, fleet, t) ==
  FleetSizeRel(total_in_air(sol, t) + total_on_ground(sol, t), fleet)

(***************************************************************************)
(* model.optimize().  The search of the external backend is replaced by an *)
(* enumeration: for growing budgets c all assignments that satisfy the     *)
(* constraints at an objective value of at most c are built, one day at a  *)
(* time, every constraint being tested as soon as the days it mentions are *)
(* assigned; the assignments of least value within the first budget that   *)
(* admits any are the optimal ones.                                        *)
(*                                                                         *)
(* A day whose predecessor is already assigned takes the aircraft and the  *)
(* backlog that the predecessor hands over (the left-hand sides of the two *)
(* flow balances); a day whose predecessor is not assigned yet takes a     *)
(* guessed hand-over, which the constraints of that day verify later.      *)
(* What narrows the enumeration follows from the constraints and from the  *)
(* objective, whose coefficients are not negative: a partial assignment    *)
(* that costs more than c is dropped; no variable of x, y, I exceeds the   *)
(* fleet size (the fleet constraint with nonnegative variables); the       *)
(* loaded flights of a demand route over the week equal its demand (the    *)
(* sum of its cargo balances), so a demand above T times the fleet size    *)
(* has no solution; and in a solution of least cost every route has a day  *)
(* without backlog (a constant could be subtracted from the route's        *)
(* backlog otherwise), so the backlog handed to day 0 is at most the       *)
(* demand of the days after day 0, and no backlog exceeds the demand of    *)
(* the week.                                                               *)
(***************************************************************************)
EmptySol == [x |-> <<>>, y |-> <<>>, I |-> <<>>, H |-> <<>>]

Extend(sol, plan) ==
  [x |-> sol.x @@ plan.x, y |-> sol.y @@ plan.y,
   I |-> sol.I @@ plan.I, H |-> sol.H @@ plan.H]

HCap(demand, r) ==
  quicksum([t \in Days \ {0} |-> IF demand[r][t] > 0 THEN demand[r][t] ELSE 0])

\* The largest count, up to most, that a budget pays for at k apiece.
Afford(k, budget, most) == IF k > 0 THEN Min(most, budget \div k) ELSE most

\* The backlogs handed to a day without assigned predecessor: coef[r] is
\* what a unit of the backlog of route r costs.
RECURSIVE HGuess(_, _, _, _)
HGuess(R, demand, coef, budget) ==
  IF R = {} THEN {<<>>}
  ELSE LET r == CHOOSE r0 \in R : TRUE
       IN UNION {
            {(r :> c) @@ h :
               h \in HGuess(R \ {r}, demand, coef, budget - coef[r] * c)} :
            c \in 0 .. Afford(coef[r], budget, HCap(demand, r))}

PGuess(fleet) ==
  {P \in [AIRPORTS -> 0 .. fleet] : FleetSizeRel(quicksum(P), fleet)}

\* The two destinations of airport i, in a fixed order.
dest1(i) == CHOOSE j \in AIRPORTS \ {i} : TRUE

dest2(i) == CHOOSE j \in AIRPORTS \ {i} : j # dest1(i)

\* The departures of airport i on a day: n aircraft split over the loaded
\* flights to dest1 and dest2, the empty flights to dest1 and dest2, and the
\* ground, in this order, followed by what the flights and the backlog they
\* leave cost; room[j] is the number of aircraft airport j can still
\* receive, xmin and xmax bound the loaded flights of a route, and cost
\* holds, per route, the coefficients of x and y, the coefficient of the
\* backlog the day leaves (cost.h) and the cargo waiting (cost.avail).
AirportPlans(i, n, xmin, xmax, room, cost, budget) ==
  LET j1 == dest1(i)
      j2 == dest2(i)
      r1 == <<i, j1>>
      r2 == <<i, j2>>
      fx(r, a) == cost.x[r] * a + cost.h[r] * (cost.avail[r] - a)
  IN UNION {UNION {UNION {
       {<<a, b, c, d, n - a - b - c - d,
          fx(r1, a) + fx(r2, b) + cost.y[r1] * c + cost.y[r2] * d>> :
          d \in (n - a - b - c - Min(n - a - b - c, room[i]))
                  .. Min(Min(n - a - b - c, room[j2] - b),
                         Afford(cost.y[r2],
                                budget - fx(r1, a) - fx(r2, b) - cost.y[r1] * c,
                                n))} :
          c \in 0 .. Min(Min(n - a - b, room[j1] - a),
                         Afford(cost.y[r1], budget - fx(r1, a) - fx(r2, b), n))} :
          b \in {b0 \in xmin[r2] .. Min(Min(n - a, xmax[r2]), room[j2]) :
                   fx(r1, a) + fx(r2, b0) <= budget}} :
          a \in {a0 \in xmin[r1] .. Min(Min(n, xmax[r1]), room[j1]) :
                   fx(r1, a0) <= budget}}

RECURSIVE DayPlans(_, _, _, _, _, _, _)
DayPlans(S, P, xmin, xmax, room, cost, budget) ==
  IF S = {} THEN {<<>>}
  ELSE LET i == CHOOSE a \in S : TRUE
           j1 == dest1(i)
           j2 == dest2(i)
       IN UNION {
            {(i :> p) @@ q :
               q \in DayPlans(S \ {i}, P, xmin, xmax,
                              (i :> (room[i] - p[5]))
                              @@ (j1 :> (room[j1] - p[1] - p[3]))
                              @@ (j2 :> (room[j2] - p[2] - p[4])),
                              cost, budget - p[6])} :
            p \in AirportPlans(i, P[i], xmin, xmax, room, cost, budget)}

\* The values a day plan gives to the variables of day t.
PlanX(plan, t) ==
  [k \in {<<r[1], r[2], t>> : r \in ROUTES} |->
     IF k[2] = dest1(k[1]) THEN plan[k[1]][1] ELSE plan[k[1]][2]]

PlanY(plan, t) ==
  [k \in {<<r[1], r[2], t>> : r \in ROUTES} |->
     IF k[2] = dest1(k[1]) THEN plan[k[1]][3] ELSE plan[k[1]][4]]

PlanI(plan, t) == [k \in {<<i, t>> : i \in AIRPORTS} |-> plan[k[1]][5]]

\* The constraints whose latest day is t.
Due(t) == {u \in 0 .. t : (u = t /\ prev(u) <= t) \/ (u < t /\ prev(u) = t)}

ConstraintsDue(sol, fleet, demand, t) ==
  /\ FleetSize(sol, fleet, t)
  /\ \A u \in Due(t) :
       /\ \A i \in AIRPORTS : FlowBal_Air(sol, i, u)
       /\ \A r \in DOMAIN demand : FlowBal_Cargo(sol, demand, r, u)

\* The earlier days that take their hand-over from day t.
Waiting(t) == {u \in 0 .. (t - 1) : prev(u) = t}

\* The part of the objective that the assignment of day t settles: the
\* flights and the grounded aircraft of the day, the backlog the day leaves
\* unless an earlier day took it as its hand-over, and the backlog handed
\* to the day by a later one.
Charge(sol, demand, objective, t) ==
  quicksum([r \in ROUTES |->
              objective.x[r[1], r[2], t] * sol.x[r[1], r[2], t]
              + objective.y[r[1], r[2], t] * sol.y[r[1], r[2], t]])
  + quicksum([i \in AIRPORTS |-> objective.I[i, t] * sol.I[i, t]])
  + quicksum([r \in DOMAIN demand |->
                (IF Waiting(t) = {}
                 THEN objective.H[r[1], r[2], t] * sol.H[r[1], r[2], t]
                 ELSE 0)
                + (IF prev(t) > t
                   THEN objective.H[r[1], r[2], prev(t)]
                          * (sol.H[r[1], r[2], t] + sol.x[r[1], r[2], t]
                               - new_demand(demand, r, t))
                   ELSE 0)])

DayExtensions(sol, fleet, demand, objective, t, budget) ==
  LET linked == prev(t) < t
      Pset == IF linked
              THEN {[i \in AIRPORTS |-> inbound(sol, i, t) + sol.I[i, prev(t)]]}
              ELSE PGuess(fleet)
      Hset == IF linked
              THEN {[r \in DOMAIN demand |-> sol.H[r[1], r[2], prev(t)]]}
              ELSE HGuess(DOMAIN demand, demand,
                          [r \in DOMAIN demand |-> objective.H[r[1], r[2], prev(t)]],
                          budget)
      \* an earlier day that takes its hand-over from day t fixes the arrivals
      waiting == Waiting(t)
      room(P) == IF waiting = {}
                 THEN [i \in AIRPORTS |-> quicksum(P)]
                 ELSE LET u == CHOOSE u0 \in waiting : TRUE
                      IN [i \in AIRPORTS |-> outbound(sol, i, u) + sol.I[i, u]]
      \* the backlog handed over by a later day is paid at once
      reserve(Hin) ==
        IF prev(t) > t
        THEN quicksum([r \in DOMAIN demand |->
                         objective.H[r[1], r[2], prev(t)] * Hin[r]])
        ELSE 0
      \* an earlier day that takes its backlog from day t fixes the backlog
      \* day t leaves, and with it the loaded flights of day t
      Plans(P, Hin) ==
        LET xmax == [r \in ROUTES |->
                       IF r \in DOMAIN demand
                       THEN Hin[r] + new_demand(demand, r, t)
                       ELSE P[r[1]]]
            xmin == [r \in ROUTES |->
                       IF r \in DOMAIN demand /\ waiting # {}
                       THEN LET u == CHOOSE u0 \in waiting : TRUE
                                left == sol.x[r[1], r[2], u] + sol.H[r[1], r[2], u]
                                          - new_demand(demand, r, u)
                            IN IF xmax[r] - left >= 0 THEN xmax[r] - left
                               ELSE xmax[r] + 1
                       ELSE 0]
            cost == [x |-> [r \in ROUTES |-> objective.x[r[1], r[2], t]],
                     y |-> [r \in ROUTES |-> objective.y[r[1], r[2], t]],
                     h |-> [r \in ROUTES |->
                              IF r \in DOMAIN demand /\ waiting = {}
                              THEN objective.H[r[1], r[2], t]
                              ELSE 0],
                     avail |-> [r \in ROUTES |->
                                  IF r \in DOMAIN demand THEN xmax[r] ELSE 0]]
        IN {LET px == PlanX(p, t)
            IN Extend(sol,
                   [x |-> px, y |-> PlanY(p, t), I |-> PlanI(p, t),
                    H |-> [k \in {<<r[1], r[2], t>> : r \in DOMAIN demand} |->
                             Hin[<<k[1], k[2]>>]
                             + new_demand(demand, <<k[1], k[2]>>, t)
                             - px[k]]]) :
              p \in DayPlans(AIRPORTS, P, xmin, xmax, room(P), cost,
                             budget - reserve(Hin))}
  IN {s \in UNION {Plans(c[1], c[2]) : c \in Pset \X Hset} :
        /\ ConstraintsDue(s, fleet, demand, t)
        /\ Charge(s, demand, objective, t) <= budget}

RECURSIVE Search(_, _, _, _, _, _)
Search(t, sol, fleet, demand, objective, budget) ==
  IF t = T THEN {sol}
  ELSE UNION {Search(t + 1, s, fleet, demand, objective,
                     budget - Charge(s, demand, objective, t)) :
                s \in DayExtensions(sol, fleet, demand, objective, t, budget)}

\* The assignments that satisfy every constraint at a value of at most c.
Within(fleet, demand, objective, c) ==
  {s \in Search(0, EmptySol, fleet, demand, objective, c) :
     getValue(objective, s) <= c}

\* More cargo in the week than the fleet can load.
Overloaded(fleet, demand) ==
  quicksum([r \in DOMAIN demand |-> quicksum(demand[r])]) > fleet * T

\* No solution of least cost is worth more than this.
Ceiling(fleet, demand, objective) ==
  LET week(r) ==
        quicksum([t \in Days |-> IF demand[r][t] > 0 THEN demand[r][t] ELSE 0])
  IN getValue(objective,
              [x |-> [k \in XKeys |-> fleet],
               y |-> [k \in XKeys |-> fleet],
               I |-> [k \in IKeys |-> fleet],
               H |-> [k \in HKeys(demand) |-> week(<<k[1], k[2]>>)]])

\* The budgets tried grow by a quarter, so that an assignment within the
\* budget need not be one of least value: the least ones are selected.
RECURSIVE Deepen(_, _, _, _, _)
Deepen(fleet, demand, objective, c, top) ==
  LET S == Within(fleet, demand, objective, c)
  IN IF S # {} THEN S
     ELSE IF c >= top THEN {}
     ELSE Deepen(fleet, demand, objective, c + 1 + (c \div 4), top)

optimize(fleet, demand, objective) ==
  LET F == IF Overloaded(fleet, demand) THEN {}
           ELSE Deepen(fleet, demand, objective, 0,
                       Ceiling(fleet, demand, objective))
      valued == {<<getValue(objective, s), s>> : s \in F}
      vals == {c[1] : c \in valued}
      best == CHOOSE b \in vals : \A w \in vals : b <= w
  IN IF F = {} THEN {}
     ELSE {c[2] : c \in {c0 \in valued : c0[1] = best}}

(***************************************************************************)
(* Python objects.  A demand table is a dict from route to a list object;  *)
(* the heap maps every live list object to its cells, so that two dicts    *)
(* sharing a list are told apart from two dicts holding equal lists.       *)
(***************************************************************************)
\* An optional value: None, or Some(v) holding v.
None == <<>>

Some(v) == <<v>>

the(o) == o[1]

NoSol == [x |-> <<>>, y |-> <<>>, I |-> <<>>, H |-> <<>>]

NoModel ==
  [vars |-> {}, objective |-> None, constrs |-> {}, optimized |-> FALSE,
   fleet |-> 0, demand |-> None]

\* The keys of DEMAND in their order of insertion (also the order of ROUTES).
RouteOrder ==
  <<<<"A", "B">>, <<"A", "C">>, <<"B", "A">>, <<"B", "C">>, <<"C", "A">>,
    <<"C", "B">>>>

\* A dict object: its keys in order of insertion, and the list object held
\* at each key.
DEFAULT_DEMAND ==
  [keys |-> RouteOrder, at |-> [r \in ROUTES |-> <<"default", r>>]]

\* A row of a demand table given to a direct evaluation: the demand of
\* Monday, of Tuesday, and of each later day.
Week(d0, d1, d2) ==
  [t \in Days |-> IF t = 0 THEN d0 ELSE IF t = 1 THEN d1 ELSE d2]

NoDemand == Week(0, 0, 0)

\* The items of a dict literal that gives every route of tbl, in the order
\* of DEMAND.
Items(tbl) == [k \in DOMAIN RouteOrder |-> <<RouteOrder[k], tbl[RouteOrder[k]]>>]

\* The demand_override arguments of a direct evaluation, each a dict literal
\* (its items in order): a table that covers one route only, tables that
\* name a pair outside ROUTES (alone, after a route, before a route), a
\* table with a negative cell, and a table with demand on two route-days.
OverrideTables ==
  {Some(<<<<<<"A", "B">>, Week(0, 0, 1)>>>>),
   Some(<<<<<<"A", "A">>, NoDemand>>>>),
   Some(<<<<<<"A", "B">>, Week(1, 1, 0)>>,
          <<<<"A", "A">>, NoDemand>>>>),
   Some(<<<<<<"A", "A">>, NoDemand>>,
          <<<<"A", "B">>, Week(1, 1, 0)>>>>),
   Some(Items(Table(Week(-1, 1, 0), NoDemand, NoDemand, NoDemand,
                    NoDemand, NoDemand))),
   Some(Items(Table(Week(1, 0, 0), NoDemand, Week(1, 0, 0), NoDemand,
                    NoDemand, NoDemand)))}

\* The fleet_size arguments of a direct evaluation.
FleetInputs == -1 .. 1

\* range(start, stop, step) for a positive step.
range(start, stop, step) ==
  IF stop <= start THEN <<>>
  ELSE [k \in 1 .. ((stop - start + step - 1) \div step) |->
          start + (k - 1) * step]

\* range(1150, 1451, 50), scaled.
fleet_sizes == range(FirstFleet, MaxFleet + 1, FleetStep)

\* copy.copy: a new dict holding the same list objects
shallow_copy(h, d) ==
  [dict |-> [keys |-> d.keys, at |-> d.at], lists |-> <<>>]

deepcopy(h, d) ==
  [dict |-> [keys |-> d.keys, at |-> [r \in DOMAIN d.at |-> <<"copy", r>>]],
   lists |-> [id \in {<<"copy", r>> : r \in DOMAIN d.at} |-> h[d.at[id[2]]]]]

\* list[i] += amount on the list object the dict holds for route r
AddCell(h, d, r, i, amount) ==
  [h EXCEPT ![d.at[r]] = [@ EXCEPT ![i] = @ + amount]]

Resolve(h, d) == [r \in DOMAIN d.at |-> h[d.at[r]]]

VARIABLES
  heap,             \* list object -> its cells
  pc,               \* control point
  op,               \* the operation in progress
  stage,            \* which evaluation of a comparison is running
  fleet_size,       \* FLEET_SIZE, or the argument of solve_cargo_operations
  demand_override,  \* argument of solve_cargo_operations (a dict or None)
  model,            \* the gurobi model under construction
  status,           \* model.status
  sol,              \* the values .X of the variables
  objVal,           \* model.objVal
  summary,          \* the summary metrics the script printed, if it did
  res,              \* what solve_cargo_operations returned
  error,            \* the exception that ended the program, if any
  idx,              \* position of the sweep in fleet_sizes
  results,          \* run_fleet_experiments: results
  printed,          \* run_fleet_experiments: the rows printed
  modified_demand,  \* the experiments' modified table (a dict or None)
  base,             \* the baseline metrics of a comparison
  scenario,         \* the metrics of the modified evaluation
  report            \* the cost difference a comparison prints, if it does

vars ==
  <<heap, pc, op, stage, fleet_size, demand_override, model, status, sol,
    objVal, summary, res, error, idx, results, printed, modified_demand, base,
    scenario, report>>

solverVars == <<model, status, sol, objVal, summary>>

localVars == <<idx, results, printed, modified_demand, base, scenario, report>>

\* The data of solver.py (lines 5-44) is in place: the table DEMAND and the
\* fleet size FLEET_SIZE.
Init ==
  /\ heap = [id \in {<<"default", r>> : r \in ROUTES} |-> DEMAND[id[2]]]
  /\ pc = "start"
  /\ op = "none"
  /\ stage = "none"
  /\ fleet_size = FLEET_SIZE
  /\ demand_override = None
  /\ model = NoModel
  /\ status = "LOADED"
  /\ sol = NoSol
  /\ objVal = None
  /\ summary = None
  /\ res = None
  /\ error = "none"
  /\ idx = 0
  /\ results = <<>>
  /\ printed = <<>>
  /\ modified_demand = None
  /\ base = None
  /\ scenario = None
  /\ report = None

(***************************************************************************)
(* `from solver import solve_cargo_operations, DEFAULT_DEMAND`             *)
(* (experiments.py, line 2).  With solver.py as it is the import runs the  *)
(* script once, on DEMAND and FLEET_SIZE, and then fails, because the      *)
(* script defines neither name.  The operations below the import are those *)
(* of a solver module that provides the two names.                         *)
(***************************************************************************)
\* The import goes on with the script of solver.py (lines 47-160).
ImportSolver ==
  /\ pc = "start"
  /\ op' = "import"
  /\ pc' = "build"
  /\ UNCHANGED <<heap, stage, fleet_size, demand_override, model, status, sol,
                 objVal, summary, res, error, idx, results, printed,
                 modified_demand, base, scenario, report>>

\* The script has ended (line 160) and the names are looked up in it.
ImportError ==
  /\ pc = "exit"
  /\ op = "import"
  /\ error' = "ImportError"
  /\ pc' = "crashed"
  /\ UNCHANGED <<heap, op, stage, fleet_size, demand_override, model, status,
                 sol, objVal, summary, res, idx, results, printed,
                 modified_demand, base, scenario, report>>

\* The import from a solver module that defines solve_cargo_operations and
\* DEFAULT_DEMAND.
ImportProvided ==
  /\ pc = "start"
  /\ pc' = "idle"
  /\ UNCHANGED <<heap, op, stage, fleet_size, demand_override, model, status,
                 sol, objVal, summary, res, error, idx, results, printed,
                 modified_demand, base, scenario, report>>

(***************************************************************************)
(* solve_cargo_operations(fleet_size, demand_override, verbose): the       *)
(* script of solver.py run on its arguments.                               *)
(***************************************************************************)
\* The table the evaluation reads: the override, or the shared default.
DemandOf(h, override) ==
  Resolve(h, IF override = None THEN DEFAULT_DEMAND ELSE the(override))

\* The dict the evaluation reads.
DemandDict(override) ==
  IF override = None THEN DEFAULT_DEMAND ELSE the(override)

\* The names of the constraints (the name= arguments of model.addConstr).
AirConstrs == {<<"FlowBal_Air", i, DAYS[t + 1]>> : i \in AIRPORTS, t \in Days}

CargoConstrs(keys) ==
  {<<"FlowBal_Cargo", keys[k][1], keys[k][2], DAYS[t + 1]>> :
     k \in DOMAIN keys, t \in Days}

FleetConstrs == {<<"FleetSize", DAYS[t + 1]>> : t \in Days}

\* Lines 47-119: the model, its variables, its objective, its constraints.
\* Nothing is checked first; a key of the table that is no route fails
\* with KeyError at x[i, j, t] of the cargo balance (line 103), after the
\* variables, the objective, the aircraft balance and the cargo balance of
\* the keys before it exist.
Build ==
  /\ pc = "build"
  /\ LET demand == DemandOf(heap, demand_override)
         keys == DemandDict(demand_override).keys
         bad == {k \in DOMAIN keys : keys[k] \notin ROUTES}
         stop == IF bad = {} THEN Len(keys) + 1
                 ELSE CHOOSE k \in bad : \A l \in bad : k <= l
         built == [vars |-> {"x", "y", "I", "H"},
                   objective |-> Some(LinAdd(obj_repo(demand), obj_hold(demand))),
                   constrs |-> AirConstrs
                                 \cup CargoConstrs(SubSeq(keys, 1, stop - 1))
                                 \cup (IF bad = {} THEN FleetConstrs ELSE {}),
                   optimized |-> FALSE,
                   fleet |-> fleet_size,
                   demand |-> Some(demand)]
     IN /\ model' = built
        /\ IF bad = {}
           THEN /\ error' = error
                /\ pc' = "optimize"
           ELSE /\ error' = "KeyError"
                /\ pc' = "crashed"
  /\ UNCHANGED <<heap, op, stage, fleet_size, demand_override, status, sol,
                 objVal, summary, res>>
  /\ UNCHANGED localVars

\* Line 122: model.optimize().
Optimize ==
  /\ pc = "optimize"
  /\ LET O == optimize(model.fleet, the(model.demand), the(model.objective))
     IN IF O = {}
        THEN /\ status' = "INFEASIBLE"
             /\ sol' = NoSol
             /\ objVal' = None
        ELSE \E s \in O :
               /\ status' = "OPTIMAL"
               /\ sol' = s
               /\ objVal' = Some(getValue(the(model.objective), s))
  /\ model' = [model EXCEPT !.optimized = TRUE]
  /\ pc' = "output"
  /\ UNCHANGED <<heap, op, stage, fleet_size, demand_override, summary, res,
                 error>>
  /\ UNCHANGED localVars

\* Line 122 when the backend ends the call without an optimal status for a
\* reason outside the program (GRB.INTERRUPTED, a limit, numerical trouble):
\* no values, a status that is not OPTIMAL.
OptimizeInterrupted ==
  /\ pc = "optimize"
  /\ status' = "INTERRUPTED"
  /\ sol' = NoSol
  /\ objVal' = None
  /\ model' = [model EXCEPT !.optimized = TRUE]
  /\ pc' = "output"
  /\ UNCHANGED <<heap, op, stage, fleet_size, demand_override, summary, res,
                 error>>
  /\ UNCHANGED localVars

total_shipped(s) == quicksum([k \in XKeys |-> s.x[k]])

total_demand(demand) ==
  quicksum([r \in DOMAIN demand |-> quicksum(demand[r])])

Metrics ==
  [TotalCost |-> the(objVal),
   RepoCost |-> getValue(obj_repo(the(model.demand)), sol),
   HoldCost |-> getValue(obj_hold(the(model.demand)), sol),
   BacklogDays |-> quicksum(sol.H),
   Shipped |-> total_shipped(sol),
   Demand |-> total_demand(the(model.demand))]

\* Lines 125-160: on an optimal status the schedule and the summary
\* metrics are printed, otherwise the line "Optimization was not
\* successful."; the model and its values stay as they are.
Output ==
  /\ pc = "output"
  /\ summary' = IF status = "OPTIMAL" THEN Some(Metrics) ELSE None
  /\ pc' = "exit"
  /\ UNCHANGED <<heap, op, stage, fleet_size, demand_override, model, status,
                 sol, objVal, res, error>>
  /\ UNCHANGED localVars

\* The end of solve_cargo_operations: the caller receives the metrics of an
\* optimal result and None otherwise (what the callers in experiments.py
\* test with `if res:`), and the model, local to the call, is gone.
Return ==
  /\ pc = "exit"
  /\ op # "import"
  /\ res' = summary
  /\ model' = NoModel
  /\ status' = "LOADED"
  /\ sol' = NoSol
  /\ objVal' = None
  /\ summary' = None
  /\ pc' = "return"
  /\ UNCHANGED <<heap, op, stage, fleet_size, demand_override, error>>
  /\ UNCHANGED localVars

(***************************************************************************)
(* evaluate: one direct call of solve_cargo_operations.                    *)
(***************************************************************************)
Evaluate(fs, tbl) ==
  /\ pc = "idle"
  /\ op' = "evaluate"
  /\ fleet_size' = fs
  /\ IF tbl = None
     THEN /\ demand_override' = None
          /\ heap' = heap
     ELSE LET items == the(tbl)
              keys == [k \in DOMAIN items |-> items[k][1]]
              cells(r) == items[CHOOSE k \in DOMAIN items : items[k][1] = r][2]
              K == {keys[k] : k \in DOMAIN keys}
          IN /\ demand_override' =
                  Some([keys |-> keys, at |-> [r \in K |-> <<"arg", r>>]])
             /\ heap' = [id \in {<<"arg", r>> : r \in K} |-> cells(id[2])] @@ heap
  /\ pc' = "build"
  /\ UNCHANGED <<stage, res, error>>
  /\ UNCHANGED solverVars
  /\ UNCHANGED localVars

EvaluateReturn ==
  /\ pc = "return"
  /\ op = "evaluate"
  /\ pc' = "done"
  /\ UNCHANGED <<heap, op, stage, fleet_size, demand_override, res, error>>
  /\ UNCHANGED solverVars
  /\ UNCHANGED localVars

(***************************************************************************)
(* run_fleet_experiments (experiments.py, lines 4-17).                     *)
(***************************************************************************)
RunFleet ==
  /\ pc = "idle"
  /\ op' = "fleet"
  /\ idx' = 1
  /\ results' = <<>>
  /\ printed' = <<>>
  /\ fleet_size' = fleet_sizes[1]
  /\ demand_override' = None
  /\ pc' = "build"
  /\ UNCHANGED <<heap, stage, res, error, modified_demand, base, scenario, report>>
  /\ UNCHANGED solverVars

\* a sweep that ends at the first size without metrics
FleetRow_stop_at_no_solution ==
  /\ pc = "return"
  /\ op = "fleet"
  /\ printed' = Append(printed, [fs |-> fleet_size, res |-> res])
  /\ results' = IF res # None THEN Append(results, <<fleet_size, the(res)>>)
                ELSE results
  /\ IF idx < Len(fleet_sizes) /\ res # None
     THEN /\ idx' = idx + 1
          /\ fleet_size' = fleet_sizes[idx + 1]
          /\ pc' = "build"
     ELSE /\ idx' = idx
          /\ fleet_size' = fleet_size
          /\ pc' = "done"
  /\ UNCHANGED <<heap, op, stage, demand_override, res, error,
                 modified_demand, base, scenario, report>>
  /\ UNCHANGED solverVars

\* Lines 13-17 for the size just evaluated (a row with the metrics, or the
\* row "Infeasible"), then the next size.
FleetRow ==
  /\ pc = "return"
  /\ op = "fleet"
  /\ printed' = Append(printed, [fs |-> fleet_size, res |-> res])
  /\ results' = IF res # None THEN Append(results, <<fleet_size, the(res)>>)
                ELSE results
  /\ IF idx < Len(fleet_sizes)
     THEN /\ idx' = idx + 1
          /\ fleet_size' = fleet_sizes[idx + 1]
          /\ pc' = "build"
     ELSE /\ idx' = idx
          /\ fleet_size' = fleet_size
          /\ pc' = "done"
  /\ UNCHANGED <<heap, op, stage, demand_override, res, error,
                 modified_demand, base, scenario, report>>
  /\ UNCHANGED solverVars

(***************************************************************************)
(* run_demand_experiments (lines 19-47): move 50 loads of A->B demand from *)
(* Monday (index 0) to Wednesday (index 2) and compare with the baseline   *)
(* at a fleet of 1200, the size of FLEET_SIZE.  A list without index 2     *)
(* fails with IndexError at line 33, after line 32 changed the copy.       *)
(***************************************************************************)
RunDemand ==
  /\ pc = "idle"
  /\ LET c == deepcopy(heap, DEFAULT_DEMAND)
         h1 == c.lists @@ heap
         h2 == AddCell(h1, c.dict, <<"A", "B">>, 0, 0 - scale(50))
         h3 == AddCell(h2, c.dict, <<"A", "B">>, 2, scale(50))
     IN /\ modified_demand' = Some(c.dict)
        /\ IF 2 \in DOMAIN h2[c.dict.at[<<"A", "B">>]]
           THEN /\ heap' = h3
                /\ error' = error
                /\ stage' = "base"
                /\ pc' = "build"
           ELSE /\ heap' = h2
                /\ error' = "IndexError"
                /\ stage' = stage
                /\ pc' = "crashed"
  /\ op' = "demand"
  /\ fleet_size' = FLEET_SIZE
  /\ demand_override' = None
  /\ UNCHANGED <<res, idx, results, printed, base, scenario, report>>
  /\ UNCHANGED solverVars

\* Line 37 reads base['Total Cost'] without testing base; line 40 then
\* evaluates the modified table.
DemandBase ==
  /\ pc = "return"
  /\ op = "demand"
  /\ stage = "base"
  /\ base' = res
  /\ IF res = None
     THEN /\ error' = "TypeError"
          /\ pc' = "crashed"
          /\ UNCHANGED <<stage, demand_override>>
     ELSE /\ error' = error
          /\ stage' = "modified"
          /\ demand_override' = modified_demand
          /\ pc' = "build"
  /\ UNCHANGED <<heap, op, fleet_size, res, idx, results, printed,
                 modified_demand, scenario, report>>
  /\ UNCHANGED solverVars

\* Lines 42-47.
DemandSmooth ==
  /\ pc = "return"
  /\ op = "demand"
  /\ stage = "modified"
  /\ scenario' = res
  /\ report' = IF res # None
               THEN Some(the(base).TotalCost - the(res).TotalCost)
               ELSE None
  /\ pc' = "done"
  /\ UNCHANGED <<heap, op, stage, fleet_size, demand_override, res, error,
                 idx, results, printed, modified_demand, base>>
  /\ UNCHANGED solverVars

(***************************************************************************)
(* run_route_balance_experiments (lines 49-72): add 200 loads to the B->A  *)
(* demand of day 0 and compare with the baseline at a fleet of 1200.       *)
(***************************************************************************)
RunRoute ==
  /\ pc = "idle"
  /\ LET c == deepcopy(heap, DEFAULT_DEMAND)
         h1 == c.lists @@ heap
         h2 == AddCell(h1, c.dict, <<"B", "A">>, 0, scale(200))
     IN /\ heap' = h2
        /\ modified_demand' = Some(c.dict)
  /\ op' = "route"
  /\ stage' = "base"
  /\ fleet_size' = FLEET_SIZE
  /\ demand_override' = None
  /\ pc' = "build"
  /\ UNCHANGED <<res, error, idx, results, printed, base, scenario, report>>
  /\ UNCHANGED solverVars

\* Line 60 reads base['Total Cost'] without testing base; line 63 then
\* evaluates the modified table.
RouteBase ==
  /\ pc = "return"
  /\ op = "route"
  /\ stage = "base"
  /\ base' = res
  /\ IF res = None
     THEN /\ error' = "TypeError"
          /\ pc' = "crashed"
          /\ UNCHANGED <<stage, demand_override>>
     ELSE /\ error' = error
          /\ stage' = "modified"
          /\ demand_override' = modified_demand
          /\ pc' = "build"
  /\ UNCHANGED <<heap, op, fleet_size, res, idx, results, printed,
                 modified_demand, scenario, report>>
  /\ UNCHANGED solverVars

\* Lines 65-72.
RouteNew ==
  /\ pc = "return"
  /\ op = "route"
  /\ stage = "modified"
  /\ scenario' = res
  /\ report' = IF res # None
               THEN Some(the(res).TotalCost - the(base).TotalCost)
               ELSE None
  /\ pc' = "done"
  /\ UNCHANGED <<heap, op, stage, fleet_size, demand_override, res, error,
                 idx, results, printed, modified_demand, base>>
  /\ UNCHANGED solverVars

\* The operation returns: its locals and the objects only they held are
\* gone, the shared default table stays.
Finish ==
  /\ pc = "done"
  /\ heap' = [id \in {<<"default", r>> : r \in ROUTES} |-> heap[id]]
  /\ pc' = "idle"
  /\ op' = "none"
  /\ stage' = "none"
  /\ fleet_size' = FLEET_SIZE
  /\ demand_override' = None
  /\ res' = None
  /\ idx' = 0
  /\ results' = <<>>
  /\ printed' = <<>>
  /\ modified_demand' = None
  /\ base' = None
  /\ scenario' = None
  /\ report' = None
  /\ UNCHANGED error
  /\ UNCHANGED solverVars

\* The program starts with the import.  After an import that provides the
\* names, the entry points (a direct evaluation and the three experiments)
\* may be called in any order, one at a time; the steps of an evaluation
\* follow each other as in the script.
Next ==
  \/ ImportSolver
  \/ ImportError
  \/ ImportProvided
  \/ \E fs \in FleetInputs, tbl \in OverrideTables \cup {None} : Evaluate(fs, tbl)
  \/ EvaluateReturn
  \/ RunFleet
  \/ FleetRow
  \/ RunDemand
  \/ DemandBase
  \/ DemandSmooth
  \/ RunRoute
  \/ RouteBase
  \/ RouteNew
  \/ Build
  \/ Optimize
  \/ Output
  \/ Return
  \/ Finish

\* The program with a backend that runs every solve to completion.
Spec == Init /\ [][Next]_vars

\* The program with a backend that may also end a solve without an optimal
\* status.
NextBackend ==
  \/ Next
  \/ OptimizeInterrupted

SpecBackend == Init /\ [][NextBackend]_vars

(***************************************************************************)
(* Properties.                                                             *)
(***************************************************************************)
Optimal == pc = "output" /\ status = "OPTIMAL"

Valid(fleet, demand) ==
  /\ fleet > 0
  /\ DOMAIN demand \subseteq ROUTES
  /\ \A r \in DOMAIN demand : \A t \in Days : demand[r][t] >= 0

\* C1: in every Optimal result, for every airport i and day t, the aircraft
\* that flew into i on day (t-1) mod T plus the ones grounded at i on that
\* day equal the aircraft that leave i on day t plus the ones grounded at i
\* on day t; the predecessor of day 0 is day T-1.
C1_AircraftConservation ==
  Optimal =>
    \A i \in AIRPORTS : \A t \in Days :
      LET p == (t - 1) % T
      IN quicksum([j \in AIRPORTS \ {i} |-> sol.x[j, i, p] + sol.y[j, i, p]])
           + sol.I[i, p]
         = quicksum([j \in AIRPORTS \ {i} |-> sol.x[i, j, t] + sol.y[i, j, t]])
           + sol.I[i, t]

C1_Witness ==
  /\ Optimal
  /\ \E r \in ROUTES : sol.x[r[1], r[2], T - 1] + sol.y[r[1], r[2], T - 1] > 0
  /\ \E i \in AIRPORTS : sol.I[i, T - 1] > 0

\* C2: in every Optimal result, for every route of the demand table and
\* every day t, backlog[(t-1) mod T] + demand[t] = loaded[t] + backlog[t],
\* all backlog and loaded counts being nonnegative integers; the backlog of
\* day T-1 is carried into day 0.
C2_CargoConservation ==
  Optimal =>
    LET demand == the(model.demand)
    IN /\ \A r \in DOMAIN demand : \A t \in Days :
            sol.H[r[1], r[2], (t - 1) % T] + demand[r][t]
              = sol.x[r[1], r[2], t] + sol.H[r[1], r[2], t]
       /\ \A k \in DOMAIN sol.H : sol.H[k] \in Nat
       /\ \A k \in DOMAIN sol.x : sol.x[k] \in Nat

C2_Witness ==
  /\ Optimal
  /\ \E r \in DOMAIN the(model.demand) :
       /\ sol.H[r[1], r[2], T - 1] > 0
       /\ sol.x[r[1], r[2], 0] > 0

\* C3: in every Optimal result, on every day, the loaded and empty flights
\* of all routes plus the grounded aircraft of all airports number exactly
\* the fleet size passed to the evaluation.
C3_FleetConservation ==
  Optimal =>
    \A t \in Days :
      quicksum([r \in ROUTES |-> sol.x[r[1], r[2], t] + sol.y[r[1], r[2], t]])
        + quicksum([i \in AIRPORTS |-> sol.I[i, t]])
      = fleet_size

C3_Witness ==
  /\ Optimal
  /\ fleet_size = MaxFleet
  /\ \E t \in Days :
       /\ \E i \in AIRPORTS : sol.I[i, t] > 0
       /\ \E r \in ROUTES : sol.x[r[1], r[2], t] + sol.y[r[1], r[2], t] > 0

\* C4: the total cost of an Optimal result is the repositioning cost (unit
\* cost times empty flights, over all route-days) plus the holding cost
\* (holding scalar times backlog, over all demand-route-days); loaded
\* flights and ground inventory add nothing; the metrics returned carry the
\* same identity.
C4_CostIdentity ==
  /\ Optimal =>
       the(objVal)
         = quicksum([k \in XKeys |-> COST_REPO[<<k[1], k[2]>>] * sol.y[k]])
           + quicksum([k \in DOMAIN sol.H |-> COST_HOLD * sol.H[k]])
  /\ (pc = "return" /\ res # None) =>
       the(res).TotalCost = the(res).RepoCost + the(res).HoldCost

C4_Witness ==
  /\ Optimal
  /\ the(objVal) > 0
  /\ \E k \in XKeys : sol.x[k] > 0
  /\ \E k \in IKeys : sol.I[k] > 0
  /\ \E k \in DOMAIN sol.H : sol.H[k] > 0

\* C5: an evaluation whose demand table names a pair outside the route set,
\* or has a negative cell, or whose fleet size is not positive, ends in a
\* configuration or validation error before any variable, constraint or
\* objective exists and before the solver runs.
C5_RejectedBeforeBuild ==
  (/\ pc \in {"optimize", "output", "crashed"}
   /\ ~Valid(fleet_size, DemandOf(heap, demand_override)))
    => /\ error \in {"ConfigurationError", "ValidationError"}
       /\ model = NoModel

\* C6: the sweep evaluates every fleet size and yields exactly one entry
\* per size, in input order, an entry being the metrics of that size or the
\* no-solution marker; a size without solution neither ends the sweep nor
\* loses its entry.  The entries are the rows the sweep prints.
C6_SweepOneEntryPerSize ==
  op = "fleet" =>
    /\ pc # "crashed"
    /\ Len(printed) <= Len(fleet_sizes)
    /\ \A k \in DOMAIN printed : printed[k].fs = fleet_sizes[k]
    /\ pc = "done" => Len(printed) = Len(fleet_sizes)

C6_Witness ==
  /\ op = "fleet"
  /\ pc = "done"
  /\ \E k \in DOMAIN printed : \E l \in DOMAIN printed :
       /\ k < l
       /\ printed[k].res = None
       /\ printed[l].res # None

\* C7: a comparison whose baseline or modified evaluation ends without an
\* optimal result (Infeasible, Unbounded or a backend failure) ends by
\* reporting that; it never fails reading metrics of an evaluation that
\* returned none.
C7_NoSolutionIsNotACrash ==
  op \in {"demand", "route"} => error # "TypeError"

\* C8: no step changes a cell of the shared default demand table, and an
\* evaluation without override reads exactly that table, also when it runs
\* after the modified table was built.
C8_DefaultsNeverMutated ==
  [][/\ Resolve(heap, DEFAULT_DEMAND)' = Resolve(heap, DEFAULT_DEMAND)
     /\ (pc' = "optimize" /\ demand_override' = None)
          => the(model.demand)' = Resolve(heap, DEFAULT_DEMAND)]_vars

C8_Witness ==
  /\ pc = "optimize"
  /\ op \in {"demand", "route"}
  /\ stage = "base"
  /\ Resolve(heap, the(modified_demand)) # Resolve(heap, DEFAULT_DEMAND)

\* C9: in a sweep over increasing fleet sizes with the demand fixed, once a
\* size has an Optimal result every larger size has one too, at a total
\* cost that is not higher.
C9_WeakMonotonicity ==
  op = "fleet" =>
    \A k \in DOMAIN printed : \A l \in DOMAIN printed :
      (printed[k].fs < printed[l].fs /\ printed[k].res # None)
        => /\ printed[l].res # None
           /\ the(printed[l].res).TotalCost <= the(printed[k].res).TotalCost

C9_Witness ==
  /\ op = "fleet"
  /\ pc = "done"
  /\ \E k \in DOMAIN printed : \E l \in DOMAIN printed :
       /\ printed[k].fs < printed[l].fs
       /\ printed[k].res # None
       /\ printed[l].res # None
       /\ the(printed[l].res).TotalCost < the(printed[k].res).TotalCost

\* C10: in every Optimal result of a valid configuration, also one whose
\* demand table covers only some routes, the loaded flights of all
\* route-days sum to the weekly demand, and a route without demand entry
\* has no loaded flight.
C10_ShippedEqualsDemand ==
  (Optimal /\ Valid(fleet_size, the(model.demand))) =>
    /\ total_shipped(sol) = total_demand(the(model.demand))
    /\ \A r \in ROUTES \ DOMAIN the(model.demand) : \A t \in Days :
         sol.x[r[1], r[2], t] = 0
====
